---- MODULE Spec2Model ----
(***************************************************************************)
(* gitbase-auto-update: src/main.rs.                                       *)
(*                                                                         *)
(* main() reads ./settings.xml, parses it into Settings, checks url and    *)
(* path, calls run() (open the repository at path, or clone it), then      *)
(* finds the remote "origin", fetches, resolves refs/remotes/origin/HEAD,  *)
(* looks the local branch up, and hard-resets when the two commits differ. *)
(* Every step of that sequence is one action; the two progress callbacks   *)
(* are split at the point between set_length and set_position.             *)
(***************************************************************************)
EXTENDS Naturals, Sequences, FiniteSets, TLC

\* ------------------------------------------------------------------ bounds
\* Commits are 1..MaxCommit; 0 stands for "no such reference".
MaxCommit == 2
\* Progress reports carry cur, total in 0..MaxTotal.
MaxTotal == 2
\* Consecutive invocations of the program on the same machine.
MaxRuns == 2

Commits == 1..MaxCommit
Oids == 0..MaxCommit

\* --------------------------------------------------------------- the world
\* Branch names that exist anywhere; the remote's default branch is "main".
Branches == {"main", "dev"}
DefaultBranch == "main"
\* Values the three fields of settings.xml take.
Urls == {"", "u"}
Paths == {"", "p"}
CfgBranches == {"", "main", "dev"}

NoSettings == [url |-> "-", path |-> "-", branch |-> "-"]
NoRepo == [exists |-> FALSE]
NoPB == [len |-> 0, pos |-> 0, live |-> FALSE]

\* struct Settings { url, path, branch }
Settings == [url : Urls, path : Paths, branch : CfgBranches]

\* ./settings.xml as found on disk: absent, not deserialisable, or a Settings.
Files == {[kind |-> "missing", s |-> NoSettings], [kind |-> "malformed", s |-> NoSettings]}
           \cup {[kind |-> "ok", s |-> s] : s \in Settings}

\* The remote: the commit of each refs/heads/<b>; main always exists, a second
\* branch may exist.
Remotes == {r \in [Branches -> Oids] : r["main"] \in Commits /\ r["dev"] \in {0, 1}}

\* A repository found at the configured path before the first run.
\*   heads[b]     refs/heads/<b>            (0: no such branch)
\*   tracking[b]  refs/remotes/origin/<b>   (0: no such reference)
\*   originHEAD   the branch refs/remotes/origin/HEAD points to ("": absent)
\*   head         the branch HEAD points to, or "detached" (then headOid)
\*   worktree     the commit the checked-out files are at
ExistingRepos ==
    {r \in [exists : {TRUE}, heads : [Branches -> Oids], tracking : [Branches -> Oids],
            originHEAD : {"", DefaultBranch}, head : Branches \cup {"detached"},
            headOid : Oids, worktree : Commits, hasOrigin : BOOLEAN] :
        /\ r.heads["dev"] \in {0, 1} /\ r.tracking["dev"] \in {0, 1}
        /\ r.head \in Branches => r.heads[r.head] # 0 /\ r.headOid = 0
                                   /\ r.worktree = r.heads[r.head]
        /\ r.head = "detached" => r.headOid # 0 /\ r.worktree = r.headOid
        /\ ~r.hasOrigin => r.originHEAD = "" /\ \A b \in Branches : r.tracking[b] = 0}

\* ------------------------------------------------------- library semantics
Min(a, b) == IF a <= b THEN a ELSE b

\* The name the remote gives the head of branch b.
RemoteRefName(b) == "refs/heads/" \o b

\* main.rs:90  format!("refs/head/{}", settings.branch)
FetchRefspec(branch) == "refs/head/" \o branch

\* Repository::open(&settings.path): succeeds iff a repository is there.
OpenOk(r) == r.exists

\* RepoBuilder::new().branch(b).fetch_options(depth 1).clone(url, path): every
\* remote head is fetched into refs/remotes/origin/*, origin/HEAD points to the
\* remote's default branch, the local branch b is created at origin/b and
\* checked out.
CloneDepth == 1
Cloned(rem, b) ==
    [exists |-> TRUE,
     heads |-> [x \in Branches |-> IF x = b THEN rem[x] ELSE 0],
     tracking |-> rem,
     originHEAD |-> DefaultBranch,
     head |-> b, headOid |-> 0,
     worktree |-> rem[b],
     hasOrigin |-> TRUE]

\* The branch asked for exists on the remote.
RemoteHas(rem, b) == b \in Branches /\ rem[b] # 0

\* remote.fetch(&[refspec], None, None): a remote head is downloaded, and its
\* remote-tracking reference updated, when its name is the refspec's source.
Fetched(r, rem, refspec) ==
    [r EXCEPT !.tracking =
        [b \in Branches |-> IF RemoteRefName(b) = refspec /\ rem[b] # 0
                            THEN rem[b] ELSE r.tracking[b]]]

\* repo.find_reference("refs/remotes/origin/HEAD") followed by
\* reference_to_annotated_commit: the commit the symbolic reference resolves to
\* (0: the reference is absent or dangling).
OriginHeadOid(r) == IF r.originHEAD = "" THEN 0 ELSE r.tracking[r.originHEAD]

\* repo.find_branch(name, Local).get().target(): 0 when there is no such branch.
LocalBranchOid(r, name) == IF name \in Branches THEN r.heads[name] ELSE 0

\* repo.reset(commit, Hard, checkout): the reference HEAD resolves to is moved
\* (the branch HEAD is on, or HEAD itself when detached) and the files are
\* checked out.
HardReset(r, oid) ==
    IF r.head = "detached"
    THEN [r EXCEPT !.headOid = oid, !.worktree = oid]
    ELSE [r EXCEPT !.heads[r.head] = oid, !.worktree = oid]

\* The commit HEAD resolves to.
HeadOid(r) == IF r.head = "detached" THEN r.headOid ELSE r.heads[r.head]

\* ------------------------------------------------------------ control flow
\* unwrap with the failure ignored: the sequence goes on after a failed step.
unwrapIgnoring(ok, next) == next

\* .unwrap() / .expect() on a Result or Option: the value, or a panic.
unwrap(ok, next) == IF ok THEN next ELSE "panic"

\* The check with && for ||: only both fields empty abort.
InvalidBoth(s) == s.url = "" /\ s.path = ""

\* main.rs:81  settings.url.is_empty() || settings.path.is_empty()
Invalid(s) == s.url = "" \/ s.path = ""

\* run() without its early return: the clone starts whatever open returned.
AfterOpenAlwaysClone(ok) == "clone_start"

\* run(): an opened repository is returned at once; otherwise the clone starts.
AfterOpen(ok) == IF ok THEN "find_remote" ELSE "clone_start"

\* The match without its NotFound arm: every clone error is returned.
AfterCloneNoPanic(outcome) == IF outcome = "ok" THEN "find_remote" ELSE "err_print"

\* The match with a retry: another error than NotFound starts the clone again.
AfterCloneRetry(outcome) ==
    CASE outcome = "ok" -> "find_remote"
      [] outcome = "notfound" -> "panic"
      [] OTHER -> "clone_start"

\* run(): the match on the clone's result. Ok: run returns the repository;
\* ErrorCode::NotFound: panic!; any other error: return Err(e), which main
\* prints.
AfterClone(outcome) ==
    CASE outcome = "ok" -> "find_remote"
      [] outcome = "notfound" -> "panic"
      [] OTHER -> "err_print"

\* The comparison inverted.
UpToDateInverted(local, origin) == local # origin

\* main.rs:106  local_oid == origin_oid
UpToDate(local, origin) == local = origin

\* The position without the min.
PositionUncapped(cur, total) == cur

\* let position = min(cur, total), in both progress callbacks.
Position(cur, total) == Min(cur, total)

\* spawn_progress_bar(): ProgressBar::new(0)
spawn_progress_bar == [len |-> 0, pos |-> 0, live |-> TRUE]

\* ------------------------------------------------------------------- state
VARIABLES
    pc,         \* the statement main()/run() is at
    run,        \* which invocation of the program this is
    file,       \* ./settings.xml
    remote,     \* the remote's heads
    repo,       \* the repository at the configured path
    settings,   \* the deserialised Settings
    calls,      \* this run's steps, in order, with the strings each was given
    out,        \* this run's printed lines
    failedAt,   \* the step of this run that failed ("" while none has)
    pb,         \* the progress bar of the running clone or reset
    cb,         \* where the progress callback is, and the cur it was handed
    originOid,  \* origin_oid
    localOid,   \* local_oid
    repo0,      \* the repository as this run found it
    cmpRepo,    \* the repository as the comparison found it
    prevEnd,    \* how the previous run ended ("" in the first run)
    cloneErr    \* the clone's error in this run: "", "notfound" or "err"

vars == <<pc, run, file, remote, repo, settings, calls, out, failedAt, pb, cb,
          originOid, localOid, repo0, cmpRepo, prevEnd, cloneErr>>

world == <<run, file, remote, prevEnd, repo0>>
bar == <<pb, cb>>
oids == <<originOid, localOid, cmpRepo>>

\* One entry of calls: the step, and what it was handed (url, path, branch, the
\* fetched reference, the clone's depth, the reset's target; "-" or 0: not given).
Call(op, url, path, branch, ref, depth, oid) ==
    [op |-> op, url |-> url, path |-> path, branch |-> branch, ref |-> ref,
     depth |-> depth, oid |-> oid]
Step(op) == Call(op, "-", "-", "-", "-", 0, 0)

IdleCb == [at |-> "idle", cur |-> 0]

Init ==
    /\ pc = "start" /\ run = 1 /\ prevEnd = ""
    /\ file \in Files
    /\ remote \in Remotes
    /\ repo \in ExistingRepos \cup {NoRepo}
    /\ repo0 = repo
    /\ settings = NoSettings
    /\ calls = <<>> /\ out = <<>> /\ failedAt = "" /\ cloneErr = ""
    /\ pb = NoPB /\ cb = IdleCb
    /\ originOid = 0 /\ localOid = 0 /\ cmpRepo = NoRepo

\* Goes to `next`, or records that `step` failed and goes where the failure leads.
Go(step, ok, next) ==
    /\ pc' = next
    /\ failedAt' = IF ok THEN failedAt ELSE step
    /\ UNCHANGED cloneErr

\* main.rs:77  fs::read_to_string("./settings.xml").unwrap()
ReadFile ==
    /\ pc = "start"
    /\ calls' = Append(calls, Step("read"))
    /\ Go("read", file.kind # "missing", unwrap(file.kind # "missing", "parse"))
    /\ UNCHANGED <<world, repo, settings, out, bar, oids>>

\* main.rs:79  de::from_str(&xml).unwrap()
Parse ==
    /\ pc = "parse"
    /\ calls' = Append(calls, Step("parse"))
    /\ settings' = IF file.kind = "ok" THEN file.s ELSE settings
    /\ Go("parse", file.kind = "ok", unwrap(file.kind = "ok", "validate"))
    /\ UNCHANGED <<world, repo, out, bar, oids>>

\* main.rs:81-83  the explicit panic on an empty url or path
Validate ==
    /\ pc = "validate"
    /\ calls' = Append(calls, Step("validate"))
    /\ Go("validate", ~Invalid(settings), IF Invalid(settings) THEN "panic" ELSE "open")
    /\ UNCHANGED <<world, repo, settings, out, bar, oids>>

\* main.rs:27-34  Repository::open(&settings.path)
Open ==
    /\ pc = "open"
    /\ calls' = Append(calls, Call("open", "-", settings.path, "-", "-", 0, 0))
    /\ pc' = AfterOpen(OpenOk(repo))
    /\ UNCHANGED <<world, repo, settings, out, failedAt, cloneErr, bar, oids>>

\* main.rs:36-59  the progress bar, the "Cloning ..." line, and the clone's start
CloneStart ==
    /\ pc = "clone_start"
    /\ pb' = spawn_progress_bar /\ cb' = IdleCb
    /\ out' = Append(out, "Cloning")
    /\ calls' = Append(calls, Call("clone", settings.url, settings.path,
                                   settings.branch, "-", CloneDepth, 0))
    /\ pc' = "cloning"
    /\ UNCHANGED <<world, repo, settings, failedAt, cloneErr, oids>>

\* main.rs:39-42  transfer_progress: pb.set_length(total_objects)
TransferSetLength ==
    /\ pc = "cloning" /\ cb.at = "idle"
    /\ \E cur \in 0..MaxTotal, total \in 0..MaxTotal :
          /\ pb' = [pb EXCEPT !.len = total]
          /\ cb' = [at |-> "len_set", cur |-> cur]
    /\ UNCHANGED <<world, pc, repo, settings, calls, out, failedAt, cloneErr, oids>>

\* main.rs:43-45  transfer_progress: pb.set_position(min(received, total))
TransferSetPosition ==
    /\ pc = "cloning" /\ cb.at = "len_set"
    /\ pb' = [pb EXCEPT !.pos = Position(cb.cur, pb.len)]
    /\ cb' = [cb EXCEPT !.at = "idle"]
    /\ UNCHANGED <<world, pc, repo, settings, calls, out, failedAt, cloneErr, oids>>

\* main.rs:56-73  the clone's result; pb.finish() and the return drop the bar.
\* A clone fails with NotFound when the remote lacks the branch, and may fail
\* for any other reason (the network, the directory).
CloneFinish ==
    /\ pc = "cloning" /\ cb.at = "idle"
    /\ \E outcome \in {"ok", "notfound", "err"} :
          /\ outcome = "ok" => RemoteHas(remote, settings.branch)
          /\ outcome = "notfound" => ~RemoteHas(remote, settings.branch)
          /\ repo' = IF outcome = "ok" THEN Cloned(remote, settings.branch) ELSE repo
          /\ pc' = AfterClone(outcome)
          /\ failedAt' = IF outcome = "ok" THEN failedAt ELSE "clone"
          /\ cloneErr' = IF outcome = "ok" THEN cloneErr ELSE outcome
    /\ pb' = NoPB /\ cb' = IdleCb
    /\ UNCHANGED <<world, settings, calls, out, oids>>

\* main.rs:140  Err(e) => println!("error: {}", e); main returns normally
PrintError ==
    /\ pc = "err_print"
    /\ out' = Append(out, "error")
    /\ pc' = "exit"
    /\ UNCHANGED <<world, repo, settings, calls, failedAt, cloneErr, bar, oids>>

\* main.rs:87  repo.find_remote("origin").unwrap()
FindRemote ==
    /\ pc = "find_remote"
    /\ calls' = Append(calls, Step("find_remote"))
    /\ Go("find_remote", repo.hasOrigin, unwrap(repo.hasOrigin, "fetch"))
    /\ UNCHANGED <<world, repo, settings, out, bar, oids>>

\* main.rs:89-91  remote.fetch(&[format!("refs/head/{}", branch)], None, None).unwrap()
Fetch ==
    /\ pc = "fetch"
    /\ calls' = Append(calls, Call("fetch", "-", "-", "-", FetchRefspec(settings.branch), 0, 0))
    /\ \E ok \in BOOLEAN :
          /\ repo' = IF ok THEN Fetched(repo, remote, FetchRefspec(settings.branch)) ELSE repo
          /\ Go("fetch", ok, unwrap(ok, "origin_head"))
    /\ UNCHANGED <<world, settings, out, bar, oids>>

\* main.rs:93-94, 103-104  origin/HEAD and the commit it resolves to
FindOriginHead ==
    /\ pc = "origin_head"
    /\ calls' = Append(calls, Step("origin_head"))
    /\ originOid' = OriginHeadOid(repo)
    /\ Go("origin_head", OriginHeadOid(repo) # 0, unwrap(OriginHeadOid(repo) # 0, "find_branch"))
    /\ UNCHANGED <<world, repo, settings, out, bar, localOid, cmpRepo>>

\* main.rs:97-100  repo.find_branch(&settings.branch, Local).unwrap()
FindBranch ==
    /\ pc = "find_branch"
    /\ calls' = Append(calls, Call("find_branch", "-", "-", settings.branch, "-", 0, 0))
    /\ localOid' = LocalBranchOid(repo, settings.branch)
    /\ Go("find_branch", LocalBranchOid(repo, settings.branch) # 0,
          unwrap(LocalBranchOid(repo, settings.branch) # 0, "compare"))
    /\ UNCHANGED <<world, repo, settings, out, bar, originOid, cmpRepo>>

\* main.rs:106-125  the comparison, the line it prints, and the reset's start
Compare ==
    /\ pc = "compare"
    /\ cmpRepo' = repo
    /\ IF UpToDate(localOid, originOid)
       THEN /\ out' = Append(out, "Already up to date")
            /\ calls' = Append(calls, Step("compare"))
            /\ pc' = "print_head"
            /\ UNCHANGED bar
       ELSE /\ out' = Append(out, "Resetting")
            /\ pb' = spawn_progress_bar /\ cb' = IdleCb
            /\ calls' = Append(Append(calls, Step("compare")),
                               Call("reset", "-", "-", "-", "-", 0, originOid))
            /\ pc' = "resetting"
    /\ UNCHANGED <<world, repo, settings, failedAt, cloneErr, originOid, localOid>>

\* main.rs:114-115  checkout progress: pb.set_length(total)
CheckoutSetLength ==
    /\ pc = "resetting" /\ cb.at = "idle"
    /\ \E cur \in 0..MaxTotal, total \in 0..MaxTotal :
          /\ pb' = [pb EXCEPT !.len = total]
          /\ cb' = [at |-> "len_set", cur |-> cur]
    /\ UNCHANGED <<world, pc, repo, settings, calls, out, failedAt, cloneErr, oids>>

\* main.rs:116-117  checkout progress: pb.set_position(min(cur, total))
CheckoutSetPosition ==
    /\ pc = "resetting" /\ cb.at = "len_set"
    /\ pb' = [pb EXCEPT !.pos = Position(cb.cur, pb.len)]
    /\ cb' = [cb EXCEPT !.at = "idle"]
    /\ UNCHANGED <<world, pc, repo, settings, calls, out, failedAt, cloneErr, oids>>

\* main.rs:120-129  repo.reset(origin_commit, Hard, cb).unwrap(); pb.finish();
\* the "Local branch reset" line. The bar is dropped with its block.
ResetFinish ==
    /\ pc = "resetting" /\ cb.at = "idle"
    /\ \E ok \in BOOLEAN :
          /\ repo' = IF ok THEN HardReset(repo, originOid) ELSE repo
          /\ out' = IF unwrap(ok, "print_head") = "print_head"
                    THEN Append(out, "Local branch reset") ELSE out
          /\ Go("reset", ok, unwrap(ok, "print_head"))
    /\ pb' = NoPB /\ cb' = IdleCb
    /\ UNCHANGED <<world, settings, calls, oids>>

\* main.rs:131-138  "Current HEAD at commit {origin_commit.id()}: ..."
PrintHead ==
    /\ pc = "print_head"
    /\ calls' = Append(calls, Step("print_head"))
    /\ out' = Append(out, "Current HEAD")
    /\ pc' = "done"
    /\ UNCHANGED <<world, repo, settings, failedAt, cloneErr, bar, oids>>

\* The process has ended: main returned ("done", or "exit" after the error
\* line) or panicked.
Ended == pc \in {"done", "exit", "panic"}

\* The program is started again; nothing but the repository on disk carries over.
NextRun ==
    /\ Ended /\ run < MaxRuns
    /\ run' = run + 1 /\ prevEnd' = pc /\ repo0' = repo
    /\ pc' = "start"
    /\ settings' = NoSettings
    /\ calls' = <<>> /\ out' = <<>> /\ failedAt' = "" /\ cloneErr' = ""
    /\ originOid' = 0 /\ localOid' = 0 /\ cmpRepo' = NoRepo
    /\ UNCHANGED <<file, remote, repo, bar>>

Next ==
    \/ ReadFile \/ Parse \/ Validate
    \/ Open \/ CloneStart \/ TransferSetLength \/ TransferSetPosition \/ CloneFinish
    \/ PrintError
    \/ FindRemote \/ Fetch \/ FindOriginHead \/ FindBranch
    \/ Compare \/ CheckoutSetLength \/ CheckoutSetPosition \/ ResetFinish
    \/ PrintHead
    \/ NextRun

Spec == Init /\ [][Next]_vars

\* ------------------------------------------------------------------ claims
LibOps == {"open", "clone", "fetch", "reset"}
IsLibCall(c) == c.op \in LibOps
LibCalls == SelectSeq(calls, IsLibCall)
Count(op) == Cardinality({i \in 1..Len(calls) : calls[i].op = op})
Printed(line) == \E i \in 1..Len(out) : out[i] = line
Rank(op) == CASE op = "open" -> 1 [] op = "clone" -> 2 [] op = "fetch" -> 3 [] OTHER -> 4

\* C1: on a run that finds the repository at the configured path, the fetch
\* brings origin/HEAD to the commit the remote's default branch has before the
\* comparison and the reset use it, and when the run ends without aborting the
\* local checkout (HEAD and the files) is at that commit.
C1_CheckoutAtRemoteDefault ==
    /\ (repo0.exists /\ cmpRepo # NoRepo) => OriginHeadOid(cmpRepo) = remote[DefaultBranch]
    /\ (repo0.exists /\ pc = "done") =>
          /\ repo.worktree = remote[DefaultBranch]
          /\ HeadOid(repo) = remote[DefaultBranch]

\* C2: a clone (depth 1, of the configured branch) is performed in a run iff
\* opening the repository at the configured path failed in that run; when the
\* open succeeds run() returns the opened repository, invokes no clone and
\* consults no url.
C2_CloneIffOpenFailed ==
    /\ Count("clone") > 0 => Count("open") = 1 /\ ~repo0.exists
    /\ (Count("open") = 1 /\ ~repo0.exists) => pc = "clone_start" \/ Count("clone") = 1
    /\ (Count("open") = 1 /\ repo0.exists) =>
          /\ Count("clone") = 0 /\ ~Printed("Cloning")
          /\ \A i \in 1..Len(calls) : calls[i].url = "-"
          /\ pc = "find_remote" => repo = repo0
    /\ \A i \in 1..Len(calls) : calls[i].op = "clone" =>
          calls[i].depth = 1 /\ calls[i].branch = settings.branch

C2_Witness ==
    /\ pc = "done" /\ ~repo0.exists /\ Count("clone") = 1 /\ repo.exists

\* C3 (as stated): every failure of every step ends the process in a panic; no
\* failure leads to a normal exit.
C3_EveryFailurePanics ==
    /\ failedAt # "" => pc = "panic"
    /\ pc = "exit" => failedAt = ""

\* C3 (amended): every failure ends the process in a panic, except a clone that
\* fails with another error than NotFound: run() returns that error, main
\* prints "error: ..." and returns normally.
C3_FailurePanicsExceptCloneError ==
    /\ (failedAt # "" /\ ~(failedAt = "clone" /\ cloneErr = "err")) => pc = "panic"
    /\ (failedAt = "clone" /\ cloneErr = "err") =>
          /\ pc \in {"err_print", "exit"}
          /\ pc = "exit" => Printed("error")
    /\ pc \in {"err_print", "exit"} => failedAt = "clone" /\ cloneErr = "err"

C3_Witness ==
    /\ pc = "exit" /\ failedAt = "clone" /\ cloneErr = "err" /\ Printed("error")
    /\ RemoteHas(remote, settings.branch)

\* C4: with an empty url or an empty path the program aborts before any
\* repository operation: no open, clone, fetch or reset is invoked in that run
\* and the repository is left as it was.
C4_EmptyUrlOrPathAborts ==
    (settings # NoSettings /\ (settings.url = "" \/ settings.path = "")) =>
        /\ \A op \in LibOps : Count(op) = 0
        /\ repo = repo0
        /\ pc \in {"validate", "panic"}

C4_Witness ==
    /\ pc = "panic" /\ failedAt = "validate"
    /\ settings.url # "" /\ settings.path = "" /\ repo.exists

\* C5: once a step has failed no later step is executed in that run; a failed
\* clone is followed by no fetch and no reset, and a failed fetch or reference
\* lookup by no reset and no "Current HEAD" line.
C5_AbortOnFirstFailure ==
    /\ failedAt # "" =>
          /\ calls[Len(calls)].op = failedAt
          /\ pc \in {"panic", "err_print", "exit"}
          /\ ~Printed("Current HEAD")
    /\ failedAt = "clone" => Count("fetch") = 0 /\ Count("reset") = 0
    /\ failedAt \in {"fetch", "origin_head", "find_branch"} =>
          Count("reset") = 0 /\ ~Printed("Resetting") /\ ~Printed("Local branch reset")

C5_Witness ==
    /\ pc = "panic" /\ failedAt = "fetch" /\ Count("fetch") = 1

\* C6: in every run open, clone, fetch and reset are invoked in that order,
\* each at most once; fetch only once a repository has been obtained, reset
\* only once the fetch has succeeded.
C6_FixedOrderNoRetry ==
    /\ \A i, j \in 1..Len(LibCalls) : i < j => Rank(LibCalls[i].op) < Rank(LibCalls[j].op)
    /\ Count("clone") > 0 => Count("open") = 1
    /\ Count("fetch") > 0 =>
          /\ repo.exists /\ Count("open") = 1
          /\ repo0.exists \/ (Count("clone") = 1 /\ cloneErr = "")
    /\ Count("reset") > 0 => Count("fetch") = 1 /\ failedAt \in {"", "reset"}

C6_Witness ==
    /\ pc = "done"
    /\ Len(LibCalls) = 4
    /\ LibCalls[1].op = "open" /\ LibCalls[2].op = "clone"
    /\ LibCalls[3].op = "fetch" /\ LibCalls[4].op = "reset"

\* C7: the configuration strings are never modified after being read and every
\* library call is given exactly the configured value: clone the url, path and
\* branch, open the path, the local-branch lookup the branch, and the fetch the
\* remote reference of the configured branch.
C7_StringsPassedUnchanged ==
    /\ settings # NoSettings => settings = file.s
    /\ \A i \in 1..Len(calls) :
          /\ calls[i].op = "open" => calls[i].path = settings.path
          /\ calls[i].op = "clone" => /\ calls[i].url = settings.url
                                      /\ calls[i].path = settings.path
                                      /\ calls[i].branch = settings.branch
          /\ calls[i].op = "find_branch" => calls[i].branch = settings.branch
          /\ calls[i].op = "fetch" => calls[i].ref = RemoteRefName(settings.branch)

\* C8: a hard reset is performed iff, after the fetch, the commit of the local
\* branch named by the configured branch differs from the commit of
\* refs/remotes/origin/HEAD; when they are equal "Already up to date" is
\* printed, no reset is invoked and the repository is left as it was.
C8_ResetIffDiffers ==
    /\ Count("reset") > 0 => cmpRepo # NoRepo
    /\ cmpRepo # NoRepo =>
          LET differs == LocalBranchOid(cmpRepo, settings.branch) # OriginHeadOid(cmpRepo)
          IN  /\ Count("reset") = 1 <=> differs
              /\ Count("reset") = 0 <=> ~differs
              /\ pc = "done" /\ differs =>
                    repo.worktree = OriginHeadOid(cmpRepo) /\ Printed("Local branch reset")
              /\ ~differs => /\ Printed("Already up to date")
                             /\ repo = cmpRepo
                             /\ ~Printed("Resetting")

C8_Witness ==
    /\ pc = "done" /\ Printed("Already up to date") /\ Count("reset") = 0
    /\ repo0.exists /\ repo.head # settings.branch

\* C9: a run started directly after a run that ended without aborting performs
\* no clone and no reset and, when it ends without failing, has reported
\* "Already up to date", whatever state the first run found the repository in.
C9_SecondRunUpToDate ==
    (run > 1 /\ prevEnd = "done") =>
        /\ Count("clone") = 0
        /\ Count("reset") = 0
        /\ pc = "done" => Printed("Already up to date")

\* C10 (as stated): the progress bar's position never exceeds its length, in
\* every state of both callbacks, also between set_length and set_position.
C10_PositionNeverExceedsLength ==
    pb.live => pb.pos <= pb.len

\* C10 (amended): the progress bar's position does not exceed its length
\* whenever no callback invocation is between its set_length and its
\* set_position, for any sequence of (cur, total) reports.
C10_PositionWithinLengthBetweenReports ==
    (pb.live /\ cb.at = "idle") => pb.pos <= pb.len

C10_Witness ==
    /\ pc = "resetting" /\ pb.live /\ cb.at = "idle"
    /\ cb.cur > pb.len /\ pb.pos = pb.len /\ pb.len > 0

====
